---- MODULE Spec2Model ----
(***************************************************************************)
(* CSCache (controllers/common/cache.go): a cache facade that serves the   *)
(* configured kinds from dedicated shared index informers, refills a miss  *)
(* with a live GET through a per-kind REST client, and passes every other  *)
(* kind through to a fallback cache.                                       *)
(*                                                                         *)
(* The API server, the shared index informer (client-go) and the fallback  *)
(* cache are collaborators outside the file.  The informer is modelled by  *)
(* the state the file reads through GetStore/GetIndexer/HasSynced; the API *)
(* server and the fallback cache by the answers they can give.             *)
(***************************************************************************)
EXTENDS Integers, Sequences, FiniteSets, TLC

VARIABLES
    informerMap,  \* CSCache.informerMap: kind identifier -> informer
    items,        \* per informer: the store's snapshot table, key -> object
    indices,      \* per informer: index name -> set of <<indexed value, key>>
    started,      \* per informer: sharedIndexInformer.started
    synced,       \* per informer: HasSynced()
    runs,         \* per registry entry: the goroutine Start spawned for it
    startCalled,  \* Start has been called
    ctxDone,      \* the context's Done channel is closed
    fallback,     \* the fallback cache: [started, synced]
    wpc,          \* WaitForCacheSync: where the one caller is
    wres,         \* WaitForCacheSync: the value returned
    winfo,        \* WaitForCacheSync: whether the call began before Start, saw a
                  \* tick of its timer, left its loop by the Done channel
    last          \* what the last step was: a reader call with its result,
                  \* a watch event, or NoCall for any other step

vars == <<informerMap, items, indices, started, synced, runs,
          startCalled, ctxDone, fallback, wpc, wres, winfo, last>>

storeVars == <<items, indices>>
lifeVars == <<started, synced, runs, startCalled, ctxDone, fallback>>
waitVars == <<wpc, wres, winfo>>

-----------------------------------------------------------------------------
(* Bounds of the model *)

\* objects one snapshot table holds at once
MaxObjs == 2

\* the namespaces ("" is a cluster-scoped object), names, field values and
\* label sets the API server's objects are drawn from
Namespaces == {"", "ops", "dev"}
Names == {"w1"}
Values == {"red", "blue"}
ColorSeqs == {<<>>, <<"red">>, <<"blue">>, <<"red", "blue">>}
LabelSets == {{}, {"app"}}

-----------------------------------------------------------------------------
(* Resource kind identifiers *)

GVK(group, version, kind) == [Group |-> group, Version |-> version, Kind |-> kind]

\* the zero GroupVersionKind of an object whose TypeMeta is not set
NoGVK == GVK("", "", "")

MutatingGVK ==
    GVK("admissionregistration.k8s.io", "v1", "MutatingWebhookConfiguration")
ValidatingGVK ==
    GVK("admissionregistration.k8s.io", "v1", "ValidatingWebhookConfiguration")
ConfigMapGVK == GVK("", "v1", "ConfigMap")

\* buildInformerMap: the list identifier of a kind
gvkList(gvk) == [gvk EXCEPT !.Kind = gvk.Kind \o "List"]

\* listToGVK
listToGVK(list) ==
    [list EXCEPT !.Kind = SubSeq(list.Kind, 1, Len(list.Kind) - 2)]

\* kindToResource: a kind outside the map yields the empty resource
kindToResource(kind) ==
    CASE kind = "MutatingWebhookConfiguration" -> "mutatingwebhookconfigurations"
      [] kind = "ValidatingWebhookConfiguration" -> "validatingwebhookconfigurations"
      [] OTHER -> ""

\* the clusterGVKList values NewCSCache is given: the kinds kindToResource knows
ConfigLists == {<<>>, <<MutatingGVK>>, <<MutatingGVK, ValidatingGVK>>}

Range(s) == {s[i] : i \in DOMAIN s}

\* what building the informer of one kind can come to: getClientForGVK
\* fails, the scheme cannot make or fill an object of the kind, or the
\* informer is made
BuildOutcomes == {"ok", "ClientError", "TypeError"}

\* the outcome for each kind a configuration can name
BuildResults == [{MutatingGVK, ValidatingGVK} -> BuildOutcomes]

\* every kind can be built
AllBuilt == [k \in {MutatingGVK, ValidatingGVK} |-> "ok"]

\* the nil map buildInformerMap returns with an error
NilMap == [nilMap |-> TRUE]

\* buildInformerMap as it would be if a kind that cannot be built were
\* skipped and the loop went on
RECURSIVE buildInformerMapSkipping(_, _)
buildInformerMapSkipping(clusterGVKList, results) ==
    IF clusterGVKList = <<>> THEN [err |-> "nil", informerMap |-> <<>>]
    ELSE LET n == Len(clusterGVKList)
             gvk == clusterGVKList[n]
             b == buildInformerMapSkipping(SubSeq(clusterGVKList, 1, n - 1), results)
             m == b.informerMap
             m1 == [k \in DOMAIN m \cup {gvk} |-> IF k = gvk THEN gvk ELSE m[k]]
         IN IF results[gvk] # "ok"
            THEN [err |-> results[gvk], informerMap |-> m]
            ELSE [err |-> b.err,
                  informerMap |-> [k \in DOMAIN m1 \cup {gvkList(gvk)} |->
                                     IF k = gvkList(gvk) THEN gvk ELSE m1[k]]]

\* buildInformerMap as it would be without the entry for the list identifier
RECURSIVE buildInformerMapNoList(_, _)
buildInformerMapNoList(clusterGVKList, results) ==
    IF clusterGVKList = <<>> THEN [err |-> "nil", informerMap |-> <<>>]
    ELSE LET n == Len(clusterGVKList)
             gvk == clusterGVKList[n]
             b == buildInformerMapNoList(SubSeq(clusterGVKList, 1, n - 1), results)
             m == b.informerMap
         IN IF b.err # "nil" THEN b
            ELSE IF results[gvk] # "ok"
            THEN [err |-> results[gvk], informerMap |-> NilMap]
            ELSE [err |-> "nil",
                  informerMap |-> [k \in DOMAIN m \cup {gvk} |->
                                     IF k = gvk THEN gvk ELSE m[k]]]

\* buildInformerMap: the kinds of the list are taken in order; the first
\* that cannot be built ends the loop with its error and the nil map; each
\* other kind is entered under its own identifier and under its list
\* identifier, both naming the one informer created for the kind (an
\* informer is named by the kind it was created for)
RECURSIVE buildInformerMap(_, _)
buildInformerMap(clusterGVKList, results) ==
    IF clusterGVKList = <<>> THEN [err |-> "nil", informerMap |-> <<>>]
    ELSE LET n == Len(clusterGVKList)
             gvk == clusterGVKList[n]
             b == buildInformerMap(SubSeq(clusterGVKList, 1, n - 1), results)
             m == b.informerMap
             m1 == [k \in DOMAIN m \cup {gvk} |-> IF k = gvk THEN gvk ELSE m[k]]
         IN IF b.err # "nil" THEN b
            ELSE IF results[gvk] # "ok"
            THEN [err |-> results[gvk], informerMap |-> NilMap]
            ELSE [err |-> "nil",
                  informerMap |-> [k \in DOMAIN m1 \cup {gvkList(gvk)} |->
                                     IF k = gvkList(gvk) THEN gvk ELSE m1[k]]]

Informers == Range(informerMap)

-----------------------------------------------------------------------------
(* Objects and the key scheme *)

\* an object: TypeMeta's kind identifier, ObjectMeta's namespace, name and
\* labels, and the field the index extractor reads
Obj(gvk, ns, name, labels, color) ==
    [gvk |-> gvk, namespace |-> ns, name |-> name, labels |-> labels, color |-> color]

\* what a watch delivers: typed objects, TypeMeta not set
WatchObjs ==
    {Obj(NoGVK, ns, n, l, c) : ns \in Namespaces, n \in Names,
                               l \in LabelSets, c \in ColorSeqs}

ObjectKeys == [Namespace : Namespaces, Name : Names]

\* the store's key function (MetaNamespaceKeyFunc)
MetaNamespaceKeyFunc(o) ==
    IF o.namespace = "" THEN o.name ELSE o.namespace \o "/" \o o.name

\* getFromStore: the key looked up
keyString(key) ==
    IF key.Namespace = "" THEN key.Name ELSE key.Namespace \o "/" \o key.Name

allNamespacesNamespace == "__all_namespaces"

\* the key without the partition of all namespaces
KeyToNamespacedKeyNoPartition(ns, baseKey) == ns \o "/" \o baseKey

KeyToNamespacedKey(ns, baseKey) ==
    IF ns # "" THEN ns \o "/" \o baseKey
    ELSE allNamespacesNamespace \o "/" \o baseKey

FieldIndexName(field) == "field:" \o field

\* toolscache.NamespaceIndex, registered when the informer is created
NamespaceIndex == "namespace"

\* the fields a caller registers an index for, and its extractor
IndexFields == {"color"}
extractValue(o) == o.color

\* the wrapped index function without the keys of the all-namespaces partition
indexFuncNamespacedOnly(o) ==
    [i \in 1..Len(extractValue(o)) |->
        KeyToNamespacedKey(o.namespace, extractValue(o)[i])]

\* indexByField: the wrapped index function
indexFunc(o) ==
    LET ns == o.namespace
        rawVals == extractValue(o)
        n == Len(rawVals)
    IN IF ns = ""
       THEN [i \in 1..n |-> KeyToNamespacedKey(ns, rawVals[i])]
       ELSE [i \in 1..(2 * n) |->
                IF i <= n THEN KeyToNamespacedKey(ns, rawVals[i])
                ELSE KeyToNamespacedKey("", rawVals[i - n])]

\* the index function registered under a name
IndexValues(name, o) ==
    IF name = NamespaceIndex THEN {o.namespace} ELSE Range(indexFunc(o))

-----------------------------------------------------------------------------
(* The informer's indexed store, as the file reaches it through GetStore,  *)
(* GetIndexer and AddIndexers                                              *)

IndexPairs(name, o, key) == {<<v, key>> : v \in IndexValues(name, o)}

\* the entries of an object leave every index
deleteFromIndices(ix, o, key) ==
    [n \in DOMAIN ix |-> ix[n] \ IndexPairs(n, o, key)]

\* the entries of an object enter every index
addToIndices(ix, o, key) ==
    [n \in DOMAIN ix |-> ix[n] \cup IndexPairs(n, o, key)]

\* the indices of a new informer: the namespace index alone
NewIndices == [n \in {NamespaceIndex} |-> {}]

\* AddIndexers: a new index function, applied to the objects already held
AddIndexers(inf, name) ==
    [n \in DOMAIN indices[inf] \cup {name} |->
        IF n = name
        THEN UNION {IndexPairs(name, items[inf][k], k) : k \in DOMAIN items[inf]}
        ELSE indices[inf][n]]

\* the item a nil interface stands for
NilItem == [nil |-> TRUE]

\* GetIndexer().ByIndex
ByIndex(inf, name, indexedValue) ==
    IF name \notin DOMAIN indices[inf]
    THEN [err |-> "NoIndex", objs |-> {}]
    ELSE [err |-> "nil",
          objs |-> {IF p[2] \in DOMAIN items[inf] THEN items[inf][p[2]] ELSE NilItem :
                      p \in {q \in indices[inf][name] : q[1] = indexedValue}}]

\* GetIndexer().List
StoreList(inf) == {items[inf][k] : k \in DOMAIN items[inf]}

-----------------------------------------------------------------------------
(* Reader calls: Get *)

\* the types a caller's object can have: the kinds of the scheme, and a type
\* the scheme does not know (written as the zero identifier)
ObjTypes == {MutatingGVK, ValidatingGVK, ConfigMapGVK, NoGVK}

\* the Go type of a caller's object: the type the scheme gives its kind, or
\* unstructured.Unstructured carrying the kind
GoTypes == {"typed", "unstructured"}

\* type resolution as it would be if it never failed
GVKForObjectAlwaysOk(t) == [ok |-> TRUE, gvk |-> t]

\* apiutil.GVKForObject: fails for a type the scheme does not know (and for
\* an unstructured object that carries no kind)
GVKForObject(t) == [ok |-> t # NoGVK, gvk |-> t]

\* the answers of the API server to a GET, and of the fallback cache
Answers ==
    {[kind |-> "notfound"], [kind |-> "error"]} \cup
    {[kind |-> "found", labels |-> b[1], color |-> b[2]] :
        b \in {<<{}, <<"red">>>>, <<{"app"}, <<>>>>}}

\* last, when the last step left no record or its record has been taken
NoCall == [op |-> "none"]

\* the caller's object before the call, and the record of no remote request
ZeroObj == Obj(NoGVK, "", "", {}, <<>>)
NoFetch == [made |-> FALSE]

\* the record of no call to the fallback cache
NoFallbackCall == [made |-> FALSE]

\* a copy that is no copy: the pointer to the store's own object
NoDeepCopy(p) == p

\* DeepCopyObject: the copy shares no storage with a store entry.  A pointer
\* is written [val, shares]: the value, and the keys of the store entries
\* whose maps and slices it shares
DeepCopyObject(p) == [val |-> p.val, shares |-> {}]

\* the check objVal.Type().AssignableTo(objVal.Type()) of getFromStore and
\* getFromClient: the type of the caller's object against itself
assignableChecked == TRUE

\* reflect.Indirect(objVal).Set(reflect.Indirect(itemVal)): the store and the
\* REST client hold objects of the Go type the scheme gives the kind; Set
\* panics for a caller's object of another Go type (goType = "unstructured")
setPanics(goType) == goType # "typed"

\* getFromStore
getFromStore(inf, key, gvk, goType) ==
    LET ks == keyString(key) IN
    IF ks \notin DOMAIN items[inf]
    THEN [err |-> "NotFound", obj |-> ZeroObj, shares |-> {}]
    ELSE LET item == DeepCopyObject([val |-> items[inf][ks], shares |-> {ks}])
         IN IF ~assignableChecked
            THEN [err |-> "Error", obj |-> ZeroObj, shares |-> {}]
            ELSE IF setPanics(goType)
            THEN [err |-> "Panic", obj |-> ZeroObj, shares |-> {}]
            ELSE [err |-> "nil", obj |-> [item.val EXCEPT !.gvk = gvk],
                  shares |-> item.shares]

\* getFromClient: one GET for the resource of the kind, the namespace (when
\* the key has one) and the name; ans is the API server's answer
getFromClient(key, gvk, ans, goType) ==
    LET fetch == [made |-> TRUE, resource |-> kindToResource(gvk.Kind),
                  namespace |-> key.Namespace, name |-> key.Name,
                  answer |-> ans]
    IN IF ans.kind = "notfound"
       THEN [err |-> "NotFound", obj |-> ZeroObj, fetch |-> fetch]
       ELSE IF ans.kind = "error"
       THEN [err |-> "Error", obj |-> ZeroObj, fetch |-> fetch]
       ELSE IF ~assignableChecked
       THEN [err |-> "Error", obj |-> ZeroObj, fetch |-> fetch]
       ELSE IF setPanics(goType)
       THEN [err |-> "Panic", obj |-> ZeroObj, fetch |-> fetch]
       ELSE [err |-> "nil",
             obj |-> Obj(gvk, key.Namespace, key.Name, ans.labels, ans.color),
             fetch |-> fetch]

GetRecord(t, goType, key, route, err, obj, shares, fetch) ==
    [op |-> "Get", type |-> t, goType |-> goType, key |-> key, route |-> route,
     err |-> err,
     obj |-> obj, shares |-> shares, fetch |-> fetch, mutated |-> FALSE,
     fb |-> NoFallbackCall]

\* c.fallback.Get: the fallback cache's answer, passed on
fallbackGet(t, goType, key, ans) ==
    [GetRecord(t, goType, key, "fallback",
               CASE ans.kind = "notfound" -> "NotFound"
                 [] ans.kind = "error" -> "Error"
                 [] OTHER -> "nil",
               IF ans.kind = "found"
               THEN Obj(t, key.Namespace, key.Name, ans.labels, ans.color)
               ELSE ZeroObj,
               {}, NoFetch)
     EXCEPT !.fb = [made |-> TRUE, op |-> "Get", type |-> t, goType |-> goType,
                    key |-> key, answer |-> ans]]

\* Get as it would be if a miss in the store were reported without asking
\* the API server
GetOutcomeStoreOnly(t, goType, key, ans) ==
    LET r == GVKForObject(t) IN
    IF ~r.ok
    THEN GetRecord(t, goType, key, "none", "NoKind", ZeroObj, {}, NoFetch)
    ELSE IF r.gvk \in DOMAIN informerMap
    THEN LET s == getFromStore(informerMap[r.gvk], key, r.gvk, goType)
         IN GetRecord(t, goType, key, "store", s.err, s.obj, s.shares, NoFetch)
    ELSE fallbackGet(t, goType, key, ans)

\* CSCache.Get: the record of the call.  route names the last collaborator
\* asked: the informer's store, the REST client or the fallback cache
GetOutcome(t, goType, key, ans) ==
    LET r == GVKForObject(t) IN
    IF ~r.ok
    THEN GetRecord(t, goType, key, "none", "NoKind", ZeroObj, {}, NoFetch)
    ELSE IF r.gvk \in DOMAIN informerMap
    THEN LET s == getFromStore(informerMap[r.gvk], key, r.gvk, goType) IN
         IF s.err \in {"nil", "Panic"}
         THEN GetRecord(t, goType, key, "store", s.err, s.obj, s.shares, NoFetch)
         ELSE LET c == getFromClient(key, r.gvk, ans, goType)
              IN GetRecord(t, goType, key, "client", c.err, c.obj, {}, c.fetch)
    ELSE fallbackGet(t, goType, key, ans)

\* Get as it would be if the object a refill fetched were written back into
\* the store
GetWriteBack(t, goType, key, ans) ==
    LET g == GetOutcome(t, goType, key, ans) IN
    /\ last = NoCall
    /\ last' = g
    /\ IF g.route = "client" /\ g.err = "nil"
       THEN LET inf == informerMap[t]
                o == [g.obj EXCEPT !.gvk = NoGVK]
                k == MetaNamespaceKeyFunc(o)
            IN /\ items' = [items EXCEPT ![inf] = (k :> o) @@ @]
               /\ indices' = [indices EXCEPT ![inf] = addToIndices(@, o, k)]
       ELSE UNCHANGED storeVars
    /\ UNCHANGED <<informerMap, lifeVars, waitVars>>

\* CSCache.Get
Get(t, goType, key, ans) ==
    /\ last = NoCall
    /\ last' = GetOutcome(t, goType, key, ans)
    /\ UNCHANGED <<informerMap, storeVars, lifeVars, waitVars>>

\* the caller writes a map of the object a successful Get gave it; the write
\* lands in every store entry that shares the map
MutateResult ==
    /\ last.op = "Get" /\ last.err = "nil" /\ ~last.mutated
    /\ last' = [last EXCEPT !.obj.labels = @ \cup {"edited"}, !.mutated = TRUE]
    /\ items' = IF last.shares = {} THEN items
                ELSE [items EXCEPT ![informerMap[last.type]] =
                        [k \in DOMAIN @ |->
                            IF k \in last.shares
                            THEN [@[k] EXCEPT !.labels = @ \cup {"edited"}]
                            ELSE @[k]]]
    /\ UNCHANGED <<informerMap, indices, lifeVars, waitVars>>

-----------------------------------------------------------------------------
(* Reader calls: List *)

Req(field, op, value) == [field |-> field, op |-> op, value |-> value]

\* the field selectors a caller passes: none, the empty selector, equality,
\* inequality, two requirements, a field no index was registered for
FieldSelectors ==
    {<<>>,
     <<Req("color", "=", "red")>>,
     <<Req("color", "==", "blue")>>,
     <<Req("color", "!=", "red")>>,
     <<Req("color", "=", "red"), Req("color", "=", "blue")>>,
     <<Req("size", "=", "red")>>}

\* client.ListOptions after ApplyOptions; a label selector is the set of
\* labels it requires
ListOptions ==
    {[hasField |-> FALSE, reqs |-> <<>>, Namespace |-> ns, hasLabel |-> hl,
      labelSel |-> IF hl THEN {"app"} ELSE {}] :
        ns \in Namespaces, hl \in BOOLEAN} \cup
    {[hasField |-> TRUE, reqs |-> fs, Namespace |-> ns, hasLabel |-> hl,
      labelSel |-> IF hl THEN {"app"} ELSE {}] :
        fs \in FieldSelectors, ns \in Namespaces, hl \in BOOLEAN}

\* the options of the Lists that are passed on or refused before the options
\* are read: none, and a selector the facade's own stores do not support
PassedListOptions ==
    {[hasField |-> FALSE, reqs |-> <<>>, Namespace |-> "", hasLabel |-> FALSE,
      labelSel |-> {}],
     [hasField |-> TRUE, reqs |-> <<Req("color", "!=", "red")>>,
      Namespace |-> "ops", hasLabel |-> TRUE, labelSel |-> {"app"}]}

\* the options a List of a list type is called with
ListOptionsFor(t) ==
    IF t \in DOMAIN informerMap THEN ListOptions ELSE PassedListOptions

\* the types a caller's list object can have
ListTypes == {gvkList(MutatingGVK), gvkList(ValidatingGVK), gvkList(ConfigMapGVK), NoGVK}

\* requiresExactMatch without the check of the operator
requiresExactMatchAnyOp(reqs) ==
    IF Len(reqs) # 1
    THEN [field |-> "", val |-> "", required |-> FALSE]
    ELSE [field |-> reqs[1].field, val |-> reqs[1].value, required |-> TRUE]

\* requiresExactMatch
requiresExactMatch(reqs) ==
    IF Len(reqs) # 1
    THEN [field |-> "", val |-> "", required |-> FALSE]
    ELSE IF reqs[1].op # "=" /\ reqs[1].op # "=="
    THEN [field |-> "", val |-> "", required |-> FALSE]
    ELSE [field |-> reqs[1].field, val |-> reqs[1].value, required |-> TRUE]

\* the candidates as they would be if a field selector, once found exact,
\* were not used for the lookup
CandidatesIgnoreField(inf, opts) ==
    IF opts.hasField /\ ~requiresExactMatch(opts.reqs).required
    THEN [err |-> "Unsupported", objs |-> {}]
    ELSE IF opts.Namespace # ""
    THEN ByIndex(inf, NamespaceIndex, opts.Namespace)
    ELSE [err |-> "nil", objs |-> StoreList(inf)]

\* CSCache.List: the candidates, by field index, namespace index or all
Candidates(inf, opts) ==
    IF opts.hasField
    THEN LET m == requiresExactMatch(opts.reqs) IN
         IF ~m.required
         THEN [err |-> "Unsupported", objs |-> {}]
         ELSE ByIndex(inf, FieldIndexName(m.field),
                      KeyToNamespacedKey(opts.Namespace, m.val))
    ELSE IF opts.Namespace # ""
    THEN ByIndex(inf, NamespaceIndex, opts.Namespace)
    ELSE [err |-> "nil", objs |-> StoreList(inf)]

\* the checks of the loop without the label selector
KeepsAnyLabel(o, opts) == ~(opts.Namespace # "" /\ opts.Namespace # o.namespace)

\* CSCache.List: the namespace and label checks of the loop
Keeps(o, opts) ==
    /\ ~(opts.Namespace # "" /\ opts.Namespace # o.namespace)
    /\ ~(opts.hasLabel /\ ~(opts.labelSel \subseteq o.labels))

ListRecord(t, opts, route, err, populated, objs) ==
    [op |-> "List", type |-> t, opts |-> opts, route |-> route, err |-> err,
     populated |-> populated, objs |-> objs, fb |-> NoFallbackCall]

\* the answers of the fallback cache to a List: an error, or the objects it
\* puts into the caller's list
ListAnswers ==
    {[kind |-> "error"],
     [kind |-> "found", objs |-> {Obj(ConfigMapGVK, "ops", "w1", {}, <<>>)}]}

\* c.fallback.List: the fallback cache's answer, passed on
fallbackList(t, opts, ans) ==
    [ListRecord(t, opts, "fallback",
                IF ans.kind = "error" THEN "Error" ELSE "nil",
                ans.kind = "found",
                IF ans.kind = "found" THEN ans.objs ELSE {})
     EXCEPT !.fb = [made |-> TRUE, op |-> "List", type |-> t, opts |-> opts,
                    answer |-> ans]]

\* CSCache.List: the record of the call.  objs is the content of the
\* caller's list object after the call (the order of a list is left open),
\* populated whether SetList ran
ListOutcome(t, opts, ans) ==
    LET r == GVKForObject(t) IN
    IF ~r.ok
    THEN ListRecord(t, opts, "none", "NoKind", FALSE, {})
    ELSE IF r.gvk \in DOMAIN informerMap
    THEN LET c == Candidates(informerMap[r.gvk], opts) IN
         IF c.err # "nil"
         THEN ListRecord(t, opts, "store", c.err, FALSE, {})
         ELSE IF NilItem \in c.objs
         THEN ListRecord(t, opts, "store", "NotObject", FALSE, {})
         ELSE ListRecord(t, opts, "store", "nil", TRUE,
                  {[o EXCEPT !.gvk = listToGVK(r.gvk)] :
                      o \in {x \in c.objs : Keeps(x, opts)}})
    ELSE fallbackList(t, opts, ans)

\* CSCache.List
List(t, opts, ans) ==
    /\ last = NoCall
    /\ last' = ListOutcome(t, opts, ans)
    /\ UNCHANGED <<informerMap, storeVars, lifeVars, waitVars>>

-----------------------------------------------------------------------------
(* IndexField *)

IndexRecord(t, field, route, err) ==
    [op |-> "IndexField", type |-> t, field |-> field, route |-> route, err |-> err,
     fb |-> NoFallbackCall]

\* c.fallback.IndexField: the fallback cache's answer, passed on
fallbackIndexField(t, field, accept) ==
    [IndexRecord(t, field, "fallback", IF accept THEN "nil" ELSE "Error")
     EXCEPT !.fb = [made |-> TRUE, op |-> "IndexField", type |-> t,
                    field |-> field, answer |-> accept]]

\* indexByField: AddIndexers refuses a name already registered; for an
\* informer that has started it refuses or indexes the objects held,
\* depending on the informer (accept; for a kind outside the registry accept
\* is the fallback cache's answer)
indexByField(inf, field, accept) ==
    LET name == FieldIndexName(field) IN
    IF name \in DOMAIN indices[inf]
    THEN [err |-> "Conflict", ix |-> indices[inf]]
    ELSE IF started[inf] /\ ~accept
    THEN [err |-> "Started", ix |-> indices[inf]]
    ELSE [err |-> "nil", ix |-> AddIndexers(inf, name)]

\* CSCache.IndexField
IndexField(t, field, accept) ==
    LET r == GVKForObject(t) IN
    /\ last = NoCall
    /\ IF ~r.ok
       THEN /\ last' = IndexRecord(t, field, "none", "NoKind")
            /\ UNCHANGED indices
       ELSE IF r.gvk \in DOMAIN informerMap
       THEN LET inf == informerMap[r.gvk]
                a == indexByField(inf, field, accept)
            IN /\ last' = IndexRecord(t, field, "store", a.err)
               /\ indices' = [indices EXCEPT ![inf] = a.ix]
       ELSE /\ last' = fallbackIndexField(t, field, accept)
            /\ UNCHANGED indices
    /\ UNCHANGED <<informerMap, items, lifeVars, waitVars>>

-----------------------------------------------------------------------------
(* GetInformer and GetInformerForKind *)

\* the answers of the fallback cache when asked for an informer: one of its
\* own informers, or an error
InformerAnswers == {[kind |-> "informer"], [kind |-> "error"]}

\* the kind identifiers GetInformerForKind is called with
KindArgs == {MutatingGVK, gvkList(MutatingGVK), ValidatingGVK, ConfigMapGVK, NoGVK}

\* the informer a call returns: none, an informer of the registry, or an
\* informer of the fallback cache
NoInformer == [of |-> "none"]
RegistryInformer(inf) == [of |-> "registry", informer |-> inf]
FallbackInformer == [of |-> "fallback"]

InformerRecord(op, t, route, err, informer) ==
    [op |-> op, type |-> t, route |-> route, err |-> err, informer |-> informer,
     fb |-> NoFallbackCall]

\* c.fallback.GetInformer and c.fallback.GetInformerForKind: the fallback
\* cache's answer, passed on
fallbackInformer(op, t, ans) ==
    [InformerRecord(op, t, "fallback",
                    IF ans.kind = "error" THEN "Error" ELSE "nil",
                    IF ans.kind = "error" THEN NoInformer ELSE FallbackInformer)
     EXCEPT !.fb = [made |-> TRUE, op |-> op, type |-> t, answer |-> ans]]

\* GetInformer as it would be if it did not look into informerMap
GetInformerOutcomeFallbackOnly(t, ans) ==
    LET r == GVKForObject(t) IN
    IF ~r.ok
    THEN InformerRecord("GetInformer", t, "none", "NoKind", NoInformer)
    ELSE fallbackInformer("GetInformer", t, ans)

\* CSCache.GetInformer: the record of the call
GetInformerOutcome(t, ans) ==
    LET r == GVKForObject(t) IN
    IF ~r.ok
    THEN InformerRecord("GetInformer", t, "none", "NoKind", NoInformer)
    ELSE IF r.gvk \in DOMAIN informerMap
    THEN InformerRecord("GetInformer", t, "store", "nil",
                        RegistryInformer(informerMap[r.gvk]))
    ELSE fallbackInformer("GetInformer", t, ans)

\* CSCache.GetInformer
GetInformer(t, ans) ==
    /\ last = NoCall
    /\ last' = GetInformerOutcome(t, ans)
    /\ UNCHANGED <<informerMap, storeVars, lifeVars, waitVars>>

\* CSCache.GetInformerForKind: the kind identifier is the caller's, not
\* resolved from an object
GetInformerForKind(gvk, ans) ==
    /\ last = NoCall
    /\ last' = IF gvk \in DOMAIN informerMap
               THEN InformerRecord("GetInformerForKind", gvk, "store", "nil",
                                   RegistryInformer(informerMap[gvk]))
               ELSE fallbackInformer("GetInformerForKind", gvk, ans)
    /\ UNCHANGED <<informerMap, storeVars, lifeVars, waitVars>>

-----------------------------------------------------------------------------
(* The watch of a running informer: the only writer of its store *)

\* the watch as it would be if an informer delivered without a goroutine
\* running it
RunningWithoutTask(inf) == ~ctxDone

Running(inf) ==
    /\ ~ctxDone
    /\ \E e \in DOMAIN informerMap : informerMap[e] = inf /\ runs[e] = "running"

OnAdd(inf, o) ==
    LET key == MetaNamespaceKeyFunc(o) IN
    /\ last = NoCall
    /\ Running(inf)
    /\ key \notin DOMAIN items[inf]
    /\ Cardinality(DOMAIN items[inf]) < MaxObjs
    /\ items' = [items EXCEPT ![inf] = (key :> o) @@ @]
    /\ indices' = [indices EXCEPT ![inf] = addToIndices(@, o, key)]
    /\ last' = [op |-> "OnAdd", inf |-> inf, key |-> key]
    /\ UNCHANGED <<informerMap, lifeVars, waitVars>>

OnUpdate(inf, o) ==
    LET key == MetaNamespaceKeyFunc(o) IN
    /\ last = NoCall
    /\ Running(inf)
    /\ key \in DOMAIN items[inf]
    /\ items[inf][key] # o
    /\ items' = [items EXCEPT ![inf][key] = o]
    /\ indices' = [indices EXCEPT ![inf] =
                      addToIndices(deleteFromIndices(@, items[inf][key], key), o, key)]
    /\ last' = [op |-> "OnUpdate", inf |-> inf, key |-> key,
                old |-> items[inf][key]]
    /\ UNCHANGED <<informerMap, lifeVars, waitVars>>

OnDelete(inf, key) ==
    /\ last = NoCall
    /\ Running(inf)
    /\ key \in DOMAIN items[inf]
    /\ items' = [items EXCEPT ![inf] = [k \in DOMAIN @ \ {key} |-> @[k]]]
    /\ indices' = [indices EXCEPT ![inf] =
                      deleteFromIndices(@, items[inf][key], key)]
    /\ last' = [op |-> "OnDelete", inf |-> inf, key |-> key,
                old |-> items[inf][key]]
    /\ UNCHANGED <<informerMap, lifeVars, waitVars>>

\* the record of a reader call or watch event is taken before the next one:
\* a reader's calls follow one another, and each is set against the store as
\* the call left it
Return ==
    /\ last # NoCall
    /\ last' = NoCall
    /\ UNCHANGED <<informerMap, storeVars, lifeVars, waitVars>>

-----------------------------------------------------------------------------
(* Start and the informers' goroutines *)

\* CSCache.Start: one goroutine per entry of informerMap, then the fallback
\* cache's own Start
Start ==
    /\ ~startCalled
    /\ startCalled' = TRUE
    /\ runs' = [e \in DOMAIN informerMap |-> "spawned"]
    /\ fallback' = [fallback EXCEPT !.started = TRUE]
    /\ last' = NoCall
    /\ UNCHANGED <<informerMap, storeVars, started, synced, ctxDone, waitVars>>

\* informer.Run, its first step: an informer that has started refuses to run
\* a second time
RunCheck(e) ==
    /\ runs[e] = "spawned"
    /\ runs' = [runs EXCEPT ![e] = IF started[informerMap[e]] THEN "refused"
                                   ELSE "starting"]
    /\ last' = NoCall
    /\ UNCHANGED <<informerMap, storeVars, started, synced, startCalled, ctxDone,
                   fallback, waitVars>>

\* informer.Run, its second step: the informer is started and lists and watches
RunStart(e) ==
    /\ runs[e] = "starting"
    /\ runs' = [runs EXCEPT ![e] = "running"]
    /\ started' = [started EXCEPT ![informerMap[e]] = TRUE]
    /\ last' = NoCall
    /\ UNCHANGED <<informerMap, storeVars, synced, startCalled, ctxDone, fallback,
                   waitVars>>

\* informer.Run returns when the stop channel is closed
RunExit(e) ==
    /\ runs[e] = "running"
    /\ ctxDone
    /\ runs' = [runs EXCEPT ![e] = "exited"]
    /\ last' = NoCall
    /\ UNCHANGED <<informerMap, storeVars, started, synced, startCalled, ctxDone,
                   fallback, waitVars>>

\* the initial list of a running informer has been applied: HasSynced turns
\* true and stays true
InformerSynced(inf) ==
    /\ Running(inf)
    /\ ~synced[inf]
    /\ synced' = [synced EXCEPT ![inf] = TRUE]
    /\ last' = NoCall
    /\ UNCHANGED <<informerMap, storeVars, started, runs, startCalled, ctxDone,
                   fallback, waitVars>>

\* the fallback cache, once started, synchronizes
FallbackSynced ==
    /\ fallback.started /\ ~fallback.synced /\ ~ctxDone
    /\ fallback' = [fallback EXCEPT !.synced = TRUE]
    /\ last' = NoCall
    /\ UNCHANGED <<informerMap, storeVars, started, synced, runs, startCalled,
                   ctxDone, waitVars>>

\* the context is cancelled
Cancel ==
    /\ ~ctxDone
    /\ ctxDone' = TRUE
    /\ last' = NoCall
    /\ UNCHANGED <<informerMap, storeVars, started, synced, runs, startCalled,
                   fallback, waitVars>>

-----------------------------------------------------------------------------
(* WaitForCacheSync *)

\* the loop as it would be if each informer overwrote the flag: the last
\* informer visited decides
RECURSIVE currentWaitingLast(_)
currentWaitingLast(es) ==
    IF es = {} THEN FALSE
    ELSE LET e == CHOOSE x \in es : TRUE
         IN IF es \ {e} = {} THEN ~synced[informerMap[e]]
            ELSE currentWaitingLast(es \ {e})

\* the loop as it would be without the negation of HasSynced
RECURSIVE currentWaitingSynced(_)
currentWaitingSynced(es) ==
    IF es = {} THEN FALSE
    ELSE LET e == CHOOSE x \in es : TRUE
         IN synced[informerMap[e]] \/ currentWaitingSynced(es \ {e})

\* the loop over informerMap: waiting while some informer has not synced
RECURSIVE currentWaiting(_)
currentWaiting(es) ==
    IF es = {} THEN FALSE
    ELSE LET e == CHOOSE x \in es : TRUE
         IN (~synced[informerMap[e]]) \/ currentWaiting(es \ {e})

\* the value of waiting after a tick of the timer
waitingAfterTick ==
    IF Cardinality(DOMAIN informerMap) = 0 THEN FALSE
    ELSE currentWaiting(DOMAIN informerMap)

\* the call as it would be if an empty registry went to the fallback cache
\* without entering the loop
WaitCallSkipsLoop ==
    /\ wpc = "idle"
    /\ wpc' = IF DOMAIN informerMap = {} THEN "fallback" ELSE "loop"
    /\ winfo' = [beforeStart |-> ~startCalled, ticked |-> FALSE, viaCancel |-> FALSE]
    /\ last' = NoCall
    /\ UNCHANGED <<informerMap, storeVars, lifeVars, wres>>

\* WaitForCacheSync is called
WaitCall ==
    /\ wpc = "idle"
    /\ wpc' = "loop"
    /\ winfo' = [beforeStart |-> ~startCalled, ticked |-> FALSE, viaCancel |-> FALSE]
    /\ last' = NoCall
    /\ UNCHANGED <<informerMap, storeVars, lifeVars, wres>>

\* select: case <-ctx.Done()
WaitCtxDone ==
    /\ wpc = "loop"
    /\ ctxDone
    /\ wpc' = "fallback"
    /\ winfo' = [winfo EXCEPT !.viaCancel = TRUE]
    /\ last' = NoCall
    /\ UNCHANGED <<informerMap, storeVars, lifeVars, wres>>

\* select: case <-time.After(time.Second)
WaitTick ==
    /\ wpc = "loop"
    /\ wpc' = IF waitingAfterTick THEN "loop" ELSE "fallback"
    /\ winfo' = [winfo EXCEPT !.ticked = TRUE]
    /\ last' = NoCall
    /\ UNCHANGED <<informerMap, storeVars, lifeVars, wres>>

\* the results c.fallback.WaitForCacheSync(ctx) can give: true only for a
\* synchronized fallback cache, false only for a cancelled context
FallbackWaitResults ==
    {r \in BOOLEAN : (r /\ fallback.synced) \/ (~r /\ ctxDone)}

\* the return as it would be if the fallback cache were not asked
WaitReturnsTrue(r) ==
    /\ wpc = "fallback"
    /\ r = TRUE
    /\ wpc' = "done"
    /\ wres' = r
    /\ last' = NoCall
    /\ UNCHANGED <<informerMap, storeVars, lifeVars, winfo>>

\* return c.fallback.WaitForCacheSync(ctx)
WaitFallbackReturn(r) ==
    /\ wpc = "fallback"
    /\ r \in FallbackWaitResults
    /\ wpc' = "done"
    /\ wres' = r
    /\ last' = NoCall
    /\ UNCHANGED <<informerMap, storeVars, lifeVars, winfo>>

\* the caller takes the result and may call again
WaitReturn ==
    /\ wpc = "done"
    /\ wpc' = "idle"
    /\ wres' = FALSE
    /\ winfo' = [beforeStart |-> FALSE, ticked |-> FALSE, viaCancel |-> FALSE]
    /\ last' = NoCall
    /\ UNCHANGED <<informerMap, storeVars, lifeVars>>

-----------------------------------------------------------------------------
(* Construction: the function NewCSCache returns, called by the manager *)

\* the watchNamespaceList values NewCSCache is given
WatchNamespaceLists == {<<>>, <<"">>, <<"ops">>}

\* last, before the function is called: there is no facade
NotBuilt == [op |-> "unbuilt"]

\* the function NewCSCache returns.  It builds the registry, reads
\* watchNamespaceList[0] (a panic for an empty list), builds the fallback
\* cache, and returns the facade; an error of either builder is returned
\* with no facade
NewCSCache(clusterGVKList, results, watchNamespaceList, fallbackFails) ==
    LET b == buildInformerMap(clusterGVKList, results)
        err == IF b.err # "nil" THEN b.err
               ELSE IF watchNamespaceList = <<>> THEN "Panic"
               ELSE IF fallbackFails THEN "FallbackError"
               ELSE "nil"
        m == IF err = "nil" THEN b.informerMap ELSE <<>>
    IN /\ last = NotBuilt
       /\ last' = [op |-> "NewCSCache", clusterGVKList |-> clusterGVKList,
                    results |-> results, err |-> err, cache |-> err = "nil",
                    registry |-> b.informerMap]
       /\ informerMap' = m
       /\ items' = [inf \in Range(m) |-> <<>>]
       /\ indices' = [inf \in Range(m) |-> NewIndices]
       /\ started' = [inf \in Range(m) |-> FALSE]
       /\ synced' = [inf \in Range(m) |-> FALSE]
       /\ runs' = [e \in DOMAIN m |-> "none"]
       /\ UNCHANGED <<startCalled, ctxDone, fallback, waitVars>>

\* there is a facade to call
Built == last # NotBuilt /\ (last.op = "NewCSCache" => last.cache)

-----------------------------------------------------------------------------
(* Specifications *)

\* the facade NewCSCache returns for a configured list of kinds
Constructed(clusterGVKList) ==
    LET m == buildInformerMap(clusterGVKList, AllBuilt).informerMap IN
    /\ informerMap = m
    /\ items = [inf \in Range(m) |-> <<>>]
    /\ indices = [inf \in Range(m) |-> NewIndices]
    /\ started = [inf \in Range(m) |-> FALSE]
    /\ synced = [inf \in Range(m) |-> FALSE]
    /\ runs = [e \in DOMAIN m |-> "none"]
    /\ startCalled = FALSE
    /\ ctxDone = FALSE
    /\ fallback = [started |-> FALSE, synced |-> FALSE]
    /\ wpc = "idle"
    /\ wres = FALSE
    /\ winfo = [beforeStart |-> FALSE, ticked |-> FALSE, viaCancel |-> FALSE]
    /\ last = NoCall

Init == \E l \in ConfigLists : Constructed(l)

\* a facade for the one kind MutatingWebhookConfiguration, started: the
\* goroutine of the kind's entry runs the informer, the goroutine of the list
\* entry was refused, the initial list is applied; a field index may have
\* been registered before Start
InitRunning ==
    LET m == buildInformerMap(<<MutatingGVK>>, AllBuilt).informerMap IN
    /\ informerMap = m
    /\ items = [inf \in Range(m) |-> <<>>]
    /\ \E fs \in SUBSET IndexFields :
          indices = [inf \in Range(m) |->
                       [n \in {NamespaceIndex} \cup {FieldIndexName(f) : f \in fs} |-> {}]]
    /\ started = [inf \in Range(m) |-> TRUE]
    /\ synced = [inf \in Range(m) |-> TRUE]
    /\ runs = [e \in DOMAIN m |-> IF e = MutatingGVK THEN "running" ELSE "refused"]
    /\ startCalled = TRUE
    /\ ctxDone = FALSE
    /\ fallback = [started |-> TRUE, synced |-> TRUE]
    /\ wpc = "idle"
    /\ wres = FALSE
    /\ winfo = [beforeStart |-> FALSE, ticked |-> FALSE, viaCancel |-> FALSE]
    /\ last = NoCall

\* the program before the facade is constructed
InitNotBuilt ==
    /\ informerMap = <<>>
    /\ items = <<>>
    /\ indices = <<>>
    /\ started = <<>>
    /\ synced = <<>>
    /\ runs = <<>>
    /\ startCalled = FALSE
    /\ ctxDone = FALSE
    /\ fallback = [started |-> FALSE, synced |-> FALSE]
    /\ wpc = "idle"
    /\ wres = FALSE
    /\ winfo = [beforeStart |-> FALSE, ticked |-> FALSE, viaCancel |-> FALSE]
    /\ last = NotBuilt

\* reads, index registration and the watch
NextRead ==
    \/ \E t \in ObjTypes, goType \in GoTypes, key \in ObjectKeys, ans \in Answers :
          Get(t, goType, key, ans)
    \/ MutateResult
    \/ \E t \in ListTypes :
          \E opts \in ListOptionsFor(t), ans \in ListAnswers : List(t, opts, ans)
    \/ \E t \in ObjTypes, f \in IndexFields, accept \in BOOLEAN : IndexField(t, f, accept)
    \/ \E t \in ObjTypes, ans \in InformerAnswers : GetInformer(t, ans)
    \/ \E gvk \in KindArgs, ans \in InformerAnswers : GetInformerForKind(gvk, ans)
    \/ \E inf \in Informers, o \in WatchObjs : OnAdd(inf, o)
    \/ \E inf \in Informers, o \in WatchObjs : OnUpdate(inf, o)
    \/ \E inf \in Informers : \E key \in DOMAIN items[inf] : OnDelete(inf, key)
    \/ Return

\* start-up, synchronization and cancellation
NextSync ==
    \/ Start
    \/ \E e \in DOMAIN informerMap : RunCheck(e)
    \/ \E e \in DOMAIN informerMap : RunStart(e)
    \/ \E e \in DOMAIN informerMap : RunExit(e)
    \/ \E inf \in Informers : InformerSynced(inf)
    \/ FallbackSynced
    \/ Cancel
    \/ WaitCall
    \/ WaitCtxDone
    \/ WaitTick
    \/ \E r \in BOOLEAN : WaitFallbackReturn(r)
    \/ WaitReturn

Next == NextRead \/ NextSync

\* one call of each reader operation and of index registration, for the
\* first kind
NextCalls ==
    \/ Get(MutatingGVK, "typed", [Namespace |-> "ops", Name |-> "w1"],
           [kind |-> "notfound"])
    \/ List(gvkList(MutatingGVK),
            [hasField |-> FALSE, reqs |-> <<>>, Namespace |-> "",
             hasLabel |-> FALSE, labelSel |-> {}],
            [kind |-> "error"])
    \/ IndexField(MutatingGVK, "color", TRUE)
    \/ GetInformer(MutatingGVK, [kind |-> "informer"])
    \/ GetInformerForKind(gvkList(MutatingGVK), [kind |-> "informer"])
    \/ Return

\* the objects the watch of the first kind delivers to a new facade
NewObjs == {Obj(NoGVK, "ops", "w1", {}, c) : c \in {<<"red">>, <<"blue">>}}

\* the watch of the first kind
NextWatch ==
    \/ \E o \in NewObjs : OnAdd(MutatingGVK, o)
    \/ \E o \in NewObjs : OnUpdate(MutatingGVK, o)
    \/ OnDelete(MutatingGVK, "ops/w1")

\* construction, then the calls of the facade it returned
NextNew ==
    \/ \E l \in ConfigLists, results \in BuildResults,
          w \in WatchNamespaceLists, ff \in BOOLEAN : NewCSCache(l, results, w, ff)
    \/ Built /\ NextSync
    \/ Built /\ NextCalls

\* a new facade of at most one kind: start-up, calls and the watch
NextBoot == NextSync \/ NextCalls \/ NextWatch

Spec == Init /\ [][Next]_vars

\* construction and the facade it returns
SpecNew == InitNotBuilt /\ [][NextNew]_vars

\* a facade constructed for no kind or for one
InitBoot == \E l \in {<<>>, <<MutatingGVK>>} : Constructed(l)

\* a new facade from construction on, under calls made at any time
SpecBoot == InitBoot /\ [][NextBoot]_vars

\* a started facade under reads and watch events
SpecRead == InitRunning /\ [][NextRead]_vars

\* a new facade through start-up, synchronization and cancellation
SpecSync == Init /\ [][NextSync]_vars

\* the timer of the poll loop fires, a closed Done channel is received, and
\* the fallback cache's WaitForCacheSync returns when it can
FairSync ==
    /\ WF_vars(WaitTick)
    /\ WF_vars(WaitCtxDone)
    /\ WF_vars(\E r \in BOOLEAN : WaitFallbackReturn(r))

SpecSyncFair == SpecSync /\ FairSync

-----------------------------------------------------------------------------
(* Properties of Get *)

\* the kind of a call's object is in the Store Registry
InRegistry(t) == GVKForObject(t).ok /\ t \in DOMAIN informerMap

\* the keys of the store of kind t that hold the object of a namespace and name
Holding(t, key) ==
    {k \in DOMAIN items[informerMap[t]] :
        /\ items[informerMap[t]][k].namespace = key.Namespace
        /\ items[informerMap[t]][k].name = key.Name}

\* the last step was a Get for a kind of the registry (the store is as the
\* call found it)
GetCalled == last.op = "Get" /\ ~last.mutated /\ InRegistry(last.type)

\* ... with a caller's object of the Go type of the kind, which can take a copy
TypedGetCalled == GetCalled /\ last.goType = "typed"

ReadStep == last = NoCall /\ last'.op \in {"Get", "List"}

C3_HitReturnsIndependentCopy ==
    /\ [](TypedGetCalled =>
            \A k \in Holding(last.type, last.key) :
                /\ last.err = "nil"
                /\ ~last.fetch.made
                /\ last.route = "store"
                /\ last.obj = [items[informerMap[last.type]][k] EXCEPT !.gvk = last.type])
    /\ [][(last.op = "Get" /\ last'.op = "Get" /\ last'.mutated)
            => UNCHANGED <<items, indices>>]_vars

\* the caller has written to the copy a hit returned
C3_Witness ==
    /\ last.op = "Get" /\ last.mutated /\ last.route = "store"
    /\ Holding(last.type, last.key) # {}

-----------------------------------------------------------------------------
(* Properties of List *)

\* the options of a List by one equality requirement on the indexed field
ByColor(op, v, ns) ==
    [hasField |-> TRUE, reqs |-> <<Req("color", op, v)>>, Namespace |-> ns,
     hasLabel |-> FALSE, labelSel |-> {}]

\* the content of a returned item, its kind stamp aside
Unstamped(x) == [x EXCEPT !.gvk = NoGVK]

\* the List of an informer's list kind with the given options (the fallback
\* cache is not asked, its answer plays no part)
ListOfStore(inf, opts) == ListOutcome(gvkList(inf), opts, [kind |-> "error"])

\* a List succeeded and its result includes the object o
Includes(rec, o) == rec.err = "nil" /\ \E x \in rec.objs : Unstamped(x) = o

FieldIndexed(inf) == FieldIndexName("color") \in DOMAIN indices[inf]

\* C4: for every object O of a store with the field index registered, every
\* value V extracted from O and O's namespace N, List by field == V in
\* namespace N includes O, and List by field == V in no namespace includes O.
C4_ListByValueIncludes ==
    \A inf \in Informers :
        FieldIndexed(inf) =>
            \A k \in DOMAIN items[inf] :
                LET o == items[inf][k] IN
                \A v \in Range(extractValue(o)), op \in {"=", "=="} :
                    /\ Includes(ListOfStore(inf, ByColor(op, v, o.namespace)), o)
                    /\ Includes(ListOfStore(inf, ByColor(op, v, "")), o)

\* a List by value across all namespaces returned an object of a namespace
C4_Witness ==
    /\ last.op = "List" /\ last.route = "store" /\ last.err = "nil"
    /\ last.opts.hasField /\ last.opts.Namespace = ""
    /\ \E x \in last.objs : x.namespace # ""

\* the object under key k of a store is in the result of a List
HasKey(rec, k) == \E x \in rec.objs : MetaNamespaceKeyFunc(x) = k

\* C5: a List by a value returns only objects the store holds now and that
\* have the value now; so once the watch has deleted O, or updated it to
\* lose a value, no List by that value, in O's namespace or in none,
\* includes O.
C5_ListDropsDeletedAndChanged ==
    \A inf \in Informers :
        FieldIndexed(inf) =>
            \A v \in Values, ns \in Namespaces, op \in {"=", "=="} :
                LET rec == ListOfStore(inf, ByColor(op, v, ns)) IN
                /\ rec.err = "nil"
                /\ \A x \in rec.objs :
                      /\ Unstamped(x) \in StoreList(inf)
                      /\ v \in Range(extractValue(x))
                /\ (last.op \in {"OnDelete", "OnUpdate"} /\ last.inf = inf
                      /\ v \in Range(extractValue(last.old))
                      /\ \A k \in DOMAIN items[inf] :
                            k = last.key => v \notin Range(extractValue(items[inf][k])))
                    => ~HasKey(rec, last.key)

\* the scenario: w1 of namespace ops, red, has just been deleted by the
\* watch, and both lists by red are empty
C5_Witness ==
    /\ last.op = "OnDelete"
    /\ last.old.namespace = "ops" /\ last.old.color = <<"red">>
    /\ FieldIndexed(last.inf)
    /\ ListOfStore(last.inf, ByColor("==", "red", "ops")).objs = {}
    /\ ListOfStore(last.inf, ByColor("==", "red", "")).objs = {}
    /\ ListOfStore(last.inf, ByColor("==", "red", "")).err = "nil"

\* C6: a List for a kind of the registry whose field selector has more than
\* one requirement or an operator other than equality fails with the
\* unsupported-selector error, whatever the store holds and whatever
\* namespace and label selector come with it, and the caller's list is not
\* populated.
C6_InexactSelectorFails ==
    (/\ last.op = "List" /\ InRegistry(last.type)
     /\ last.opts.hasField
     /\ \/ Len(last.opts.reqs) > 1
        \/ \E i \in DOMAIN last.opts.reqs : last.opts.reqs[i].op \notin {"=", "=="})
    => /\ last.err = "Unsupported"
       /\ ~last.populated
       /\ last.objs = {}

\* a List with an inequality was refused though the store holds a blue object
\* under a registered index
C6_Witness ==
    /\ last.op = "List" /\ InRegistry(last.type)
    /\ last.opts.hasField /\ last.opts.reqs = <<Req("color", "!=", "red")>>
    /\ last.opts.Namespace # "" /\ last.opts.hasLabel
    /\ last.err = "Unsupported"
    /\ FieldIndexed(informerMap[last.type])
    /\ \E o \in StoreList(informerMap[last.type]) : o.color = <<"blue">>

-----------------------------------------------------------------------------
(* Properties of WaitForCacheSync *)

\* every informer of the registry has synced
AllSynced == \A inf \in Informers : synced[inf]

\* WaitForCacheSync has returned, and left its loop on the cancelled context
ReturnedOnCancel == wpc = "done" /\ winfo.viaCancel

\* C7 as stated: when the context is cancelled, WaitForCacheSync returns
\* false, whatever the stores and the fallback cache report.
C7_CancelReturnsFalse == ReturnedOnCancel => wres = FALSE

\* C7: once the loop has seen the cancelled context WaitForCacheSync polls no
\* more, whatever the stores report, and returns the answer of the fallback
\* cache's WaitForCacheSync for the cancelled context: true only if the
\* fallback cache is synchronized, false otherwise.
C7_CancelReturnsFallbackResult ==
    /\ [](ReturnedOnCancel => (wres => fallback.synced))
    /\ [][(wpc = "fallback" /\ winfo.viaCancel) => wpc' # "loop"]_vars

\* cancelled while a store had synced and the fallback cache had not: false
C7_Witness ==
    /\ ReturnedOnCancel /\ ~wres
    /\ ~fallback.synced
    /\ \E inf \in Informers : synced[inf]

\* C8: a WaitForCacheSync call made before Start that is still waiting when
\* Start has run and every store and the fallback cache have synchronized
\* returns true, unless the context is cancelled.
C8_WaitEventuallyTrue ==
    (/\ wpc \in {"loop", "fallback"} /\ winfo.beforeStart
     /\ startCalled /\ AllSynced /\ fallback.synced)
    ~> ((wpc = "done" /\ wres) \/ ctxDone)

\* a call made before Start has returned true for a registry of two stores,
\* with no cancellation
C8_Witness ==
    /\ wpc = "done" /\ wres /\ winfo.beforeStart
    /\ ~ctxDone /\ startCalled
    /\ Cardinality(Informers) = 2 /\ AllSynced /\ fallback.synced

\* C9: whenever WaitForCacheSync returns true, every store of the registry
\* and the fallback cache report synchronized.
C9_TrueImpliesAllSynced ==
    (wpc = "done" /\ wres) => (AllSynced /\ fallback.synced)

\* C10: while the context is not cancelled and some store has not
\* synchronized, WaitForCacheSync stays in its poll loop: it neither asks
\* the fallback cache nor returns, whatever the other stores and the
\* fallback cache report.
C10_UnsyncedStoreHoldsWait ==
    (wpc \in {"fallback", "done"}) => (ctxDone \/ AllSynced)

\* the timer has fired with one store and the fallback cache synchronized
\* and the other store not, and the call is still in its loop
C10_Witness ==
    /\ wpc = "loop" /\ winfo.ticked /\ ~ctxDone
    /\ fallback.synced
    /\ \E inf \in Informers : synced[inf]
    /\ \E inf \in Informers : ~synced[inf]

-----------------------------------------------------------------------------
(* Properties of routing *)

\* the last step was a call of one of the five routed operations, with the
\* result as the call returned it
RoutedCall ==
    /\ last.op \in {"Get", "List", "GetInformer", "GetInformerForKind", "IndexField"}
    /\ last.op = "Get" => ~last.mutated

\* the call's kind identifier was resolved (GetInformerForKind is given it)
KindResolved == last.op = "GetInformerForKind" \/ last.type # NoGVK

\* the fallback cache was given the call's own arguments
DelegatedUnmodified ==
    /\ last.fb.made /\ last.fb.op = last.op /\ last.fb.type = last.type
    /\ last.op = "Get" => last.fb.key = last.key /\ last.fb.goType = last.goType
    /\ last.op = "List" => last.fb.opts = last.opts
    /\ last.op = "IndexField" => last.fb.field = last.field

\* the call returned what the fallback cache answered
ReturnsFallbackAnswer ==
    /\ last.op = "Get" =>
          /\ last.err = (CASE last.fb.answer.kind = "notfound" -> "NotFound"
                           [] last.fb.answer.kind = "error" -> "Error"
                           [] OTHER -> "nil")
          /\ last.fb.answer.kind = "found" =>
                /\ last.obj.labels = last.fb.answer.labels
                /\ last.obj.color = last.fb.answer.color
    /\ last.op = "List" =>
          IF last.fb.answer.kind = "error"
          THEN last.err = "Error" /\ last.objs = {}
          ELSE last.err = "nil" /\ last.objs = last.fb.answer.objs
    /\ last.op \in {"GetInformer", "GetInformerForKind"} =>
          IF last.fb.answer.kind = "error"
          THEN last.err = "Error" /\ last.informer.of = "none"
          ELSE last.err = "nil" /\ last.informer.of = "fallback"
    /\ last.op = "IndexField" =>
          last.err = (IF last.fb.answer THEN "nil" ELSE "Error")

\* C11: a routed call whose kind is in the registry makes no call to the
\* fallback cache; one whose kind is not in the registry gives its own
\* arguments to the fallback cache, returns the fallback cache's answer,
\* sends no remote request and changes no store.
C11_RoutedByRegistryAlone ==
    /\ []((RoutedCall /\ KindResolved) =>
            IF last.type \in DOMAIN informerMap
            THEN /\ ~last.fb.made
                 /\ last.route \in {"store", "client"}
            ELSE /\ last.route = "fallback"
                 /\ DelegatedUnmodified
                 /\ ReturnsFallbackAnswer
                 /\ last.op = "Get" => ~last.fetch.made)
    /\ [][(last = NoCall
             /\ last'.op \in {"Get", "List", "GetInformer", "GetInformerForKind",
                              "IndexField"}
             /\ last'.route = "fallback")
            => UNCHANGED <<items, indices, informerMap>>]_vars

\* a List of a kind outside the registry returned the fallback cache's
\* objects while the store of the registry held an object
C11_Witness ==
    /\ last.op = "List" /\ last.fb.made
    /\ last.err = "nil" /\ last.objs # {}
    /\ \E inf \in Informers : DOMAIN items[inf] # {}

\* C17: a Get, List, GetInformer or IndexField whose object has a type that
\* cannot be resolved to a kind identifier returns the type-resolution
\* error, and has asked no store, sent no remote request and made no call to
\* the fallback cache; the caller's object or list is as it was passed.
C17_UnresolvedTypeFailsFast ==
    (last.op \in {"Get", "List", "GetInformer", "IndexField"} /\ last.type = NoGVK)
    => /\ last.err = "NoKind"
       /\ last.route = "none"
       /\ ~last.fb.made
       /\ last.op = "Get" => ~last.fetch.made /\ last.obj = ZeroObj
       /\ last.op = "List" => ~last.populated /\ last.objs = {}
       /\ last.op = "GetInformer" => last.informer = NoInformer

\* an IndexField with an unresolvable type failed while the store held an
\* object and had no field index
C17_Witness ==
    /\ last.op = "IndexField" /\ last.type = NoGVK /\ last.err = "NoKind"
    /\ \E inf \in Informers : DOMAIN items[inf] # {} /\ ~FieldIndexed(inf)

-----------------------------------------------------------------------------
(* Properties of construction *)

\* the list identifier of a kind: the kind suffixed with "List"
ListIdOf(k) == [Group |-> k.Group, Version |-> k.Version, Kind |-> k.Kind \o "List"]

\* the registry holds, for every kind of a configured list, the kind and its
\* list identifier, both naming one store, and nothing else
RegistryFor(l) ==
    /\ DOMAIN informerMap = Range(l) \cup {ListIdOf(k) : k \in Range(l)}
    /\ \A k \in Range(l) : informerMap[k] = informerMap[ListIdOf(k)]

\* the last step was a construction that returned a facade
JustBuilt == last.op = "NewCSCache" /\ last.cache

\* C12: after a successful construction the registry has, for every
\* configured kind, an entry for the kind and an entry for its list
\* identifier, both for the same store, and no other entry; and no step of a
\* constructed facade changes the registry.
C12_RegistryPairsAndFixed ==
    /\ [](JustBuilt => RegistryFor(last.clusterGVKList))
    /\ [](Built => \E l \in ConfigLists : RegistryFor(l))
    /\ [][Built => informerMap' = informerMap]_vars

\* a facade of two kinds has been started and has registered a field index
C12_Witness ==
    /\ Built /\ startCalled
    /\ Cardinality(DOMAIN informerMap) = 4
    /\ Cardinality(Informers) = 2
    /\ last.op = "IndexField" /\ last.route = "store" /\ last.err = "nil"

\* the positions of a configured list whose kind cannot be built
FailingPositions(l, results) == {i \in DOMAIN l : results[l[i]] # "ok"}

\* C13: when the client or the type of some kind of the configured list
\* cannot be built, at whatever position, buildInformerMap returns the error
\* of the first such kind and the nil map, not the entries of the kinds
\* before it, and the construction returns no facade.
C13_BuildFailureGivesNothing ==
    /\ (last.op = "NewCSCache"
          /\ FailingPositions(last.clusterGVKList, last.results) # {})
       => /\ \E i \in FailingPositions(last.clusterGVKList, last.results) :
                /\ \A j \in FailingPositions(last.clusterGVKList, last.results) : i <= j
                /\ last.err = last.results[last.clusterGVKList[i]]
          /\ last.err \in {"ClientError", "TypeError"}
          /\ last.registry = NilMap
          /\ ~last.cache
    /\ ~Built => /\ informerMap = <<>>
                 /\ items = <<>> /\ indices = <<>>
                 /\ ~startCalled /\ wpc = "idle"

\* the second kind of a list of two could not be resolved to a type after
\* the first kind had been built
C13_Witness ==
    /\ last.op = "NewCSCache"
    /\ last.clusterGVKList = <<MutatingGVK, ValidatingGVK>>
    /\ last.results[MutatingGVK] = "ok"
    /\ last.results[ValidatingGVK] = "TypeError"
    /\ last.err = "TypeError" /\ ~last.cache

-----------------------------------------------------------------------------
(* Properties of the kind stamp, of Start and of the time before Start *)

\* C14: every item a List of a registered list kind returns is stamped with
\* the singular kind identifier, the one whose list identifier the List was
\* called for.
C14_ListItemsStampedWithKind ==
    (last.op = "List" /\ last.route = "store" /\ last.err = "nil")
    => \A x \in last.objs : ListIdOf(x.gvk) = last.type

\* the goroutines of Start that are running a given informer
RunningTasks(inf) ==
    {e \in DOMAIN informerMap : informerMap[e] = inf /\ runs[e] = "running"}

\* C15: no store has two watch tasks running at once.
C15_OneWatchTaskPerStore ==
    \A inf \in Informers : Cardinality(RunningTasks(inf)) <= 1

\* C16: as long as Start has not been called, whatever Get, List,
\* GetInformer, IndexField and WaitForCacheSync calls have been made, every
\* store has an empty snapshot table and empty indices, has not started, is
\* not synchronized, and no goroutine runs its informer.
C16_NothingBeforeStart ==
    ~startCalled =>
        \A inf \in Informers :
            /\ items[inf] = <<>>
            /\ \A n \in DOMAIN indices[inf] : indices[inf][n] = {}
            /\ ~started[inf] /\ ~synced[inf]
            /\ \A e \in DOMAIN informerMap : runs[e] = "none"

\* before Start, a field index has been registered, WaitForCacheSync is
\* polling and has seen its timer fire, and a List has returned no object
C16_Witness ==
    /\ ~startCalled /\ Informers # {}
    /\ wpc = "loop" /\ winfo.ticked
    /\ \E inf \in Informers : FieldIndexed(inf)
    /\ last.op = "List" /\ last.route = "store" /\ last.err = "nil"
    /\ last.objs = {}

-----------------------------------------------------------------------------
(* Properties of List's selection and of the field index *)

\* the options name no field, or one equality on the indexed field
ExactOrNoField(opts) ==
    opts.hasField =>
        /\ Len(opts.reqs) = 1
        /\ opts.reqs[1].op \in {"=", "=="}
        /\ opts.reqs[1].field = "color"

\* the object satisfies every condition the options supply
Satisfies(o, opts) ==
    /\ opts.hasField => opts.reqs[1].value \in Range(extractValue(o))
    /\ opts.Namespace # "" => o.namespace = opts.Namespace
    /\ opts.hasLabel => opts.labelSel \subseteq o.labels

\* C18: for a registered kind, whatever the store holds, a List with an
\* optional equality on the indexed field, an optional namespace and an
\* optional label selector succeeds and returns exactly the objects of the
\* store that satisfy all the conditions supplied; an object of another
\* namespace is never in the result of a List restricted to a namespace.
C18_ListReturnsExactlyMatching ==
    (/\ last.op = "List" /\ InRegistry(last.type)
     /\ ExactOrNoField(last.opts)
     /\ last.opts.hasField => FieldIndexed(informerMap[last.type]))
    => /\ last.err = "nil" /\ last.populated
       /\ {Unstamped(x) : x \in last.objs}
            = {o \in StoreList(informerMap[last.type]) : Satisfies(o, last.opts)}
       /\ last.opts.Namespace # "" =>
             \A x \in last.objs : x.namespace = last.opts.Namespace

\* a List by value, namespace and label returned one of the two objects of
\* the store
C18_Witness ==
    /\ last.op = "List" /\ last.route = "store" /\ last.err = "nil"
    /\ last.opts.hasField /\ last.opts.Namespace # "" /\ last.opts.hasLabel
    /\ Cardinality(last.objs) = 1
    /\ Cardinality(StoreList(informerMap[last.type])) = 2

\* the keys the claim lists for an object
QualifiedKeys(o) == {o.namespace \o "/" \o v : v \in Range(extractValue(o))}
AgnosticKeys(o) == {"__all_namespaces/" \o v : v \in Range(extractValue(o))}

\* C19: for an object of a namespace with k extracted values the wrapped
\* index function yields 2k keys, namespace/v and __all_namespaces/v for
\* each value v; for a cluster-scoped object it yields the k keys
\* __all_namespaces/v; and every object of a store with the field index is
\* entered in the index under each of these keys and under no other.
C19_IndexKeysBothPartitions ==
    \A inf \in Informers :
        \A k \in DOMAIN items[inf] :
            LET o == items[inf][k] IN
            /\ IF o.namespace # ""
               THEN /\ Len(indexFunc(o)) = 2 * Len(extractValue(o))
                    /\ Range(indexFunc(o)) = QualifiedKeys(o) \cup AgnosticKeys(o)
               ELSE /\ Len(indexFunc(o)) = Len(extractValue(o))
                    /\ Range(indexFunc(o)) = AgnosticKeys(o)
            /\ FieldIndexed(inf) =>
                  {p[1] : p \in {q \in indices[inf][FieldIndexName("color")] : q[2] = k}}
                    = IF o.namespace # "" THEN QualifiedKeys(o) \cup AgnosticKeys(o)
                      ELSE AgnosticKeys(o)

\* an indexed store holds a cluster-scoped object of two values and an
\* object of a namespace
C19_Witness ==
    \E inf \in Informers :
        /\ FieldIndexed(inf)
        /\ \E k \in DOMAIN items[inf] :
              items[inf][k].namespace = "" /\ Len(items[inf][k].color) = 2
        /\ \E k \in DOMAIN items[inf] :
              items[inf][k].namespace # "" /\ Len(items[inf][k].color) = 1

-----------------------------------------------------------------------------
(* WaitForCacheSync with an empty registry *)

\* C20: with an empty registry WaitForCacheSync asks the fallback cache only
\* after the first tick of its timer or after cancellation, one tick ends
\* its loop, and what it returns is an answer of the fallback cache's
\* WaitForCacheSync: true only for a synchronized fallback cache, false only
\* for a cancelled context.
C20_EmptyRegistryDefersToFallback ==
    /\ []((Informers = {} /\ wpc \in {"fallback", "done"})
            => (winfo.ticked \/ winfo.viaCancel))
    /\ []((Informers = {} /\ wpc = "loop") => ~winfo.ticked)
    /\ [][(Informers = {} /\ wpc = "fallback" /\ wpc' = "done")
            => wres' \in FallbackWaitResults]_vars

\* with an empty registry the call has returned true after one tick
C20_Witness ==
    /\ Informers = {} /\ wpc = "done" /\ wres
    /\ winfo.ticked /\ ~winfo.viaCancel /\ ~ctxDone

====
